---- MODULE Spec2Model ----
(***************************************************************************)
(* State-machine model of the CraftDashboard page (src/pages/index.js):    *)
(* the React state of the component, the requests and timers it has        *)
(* outstanding, and one action per event handler, timer callback and       *)
(* fetch completion.  An action contains the effects (useEffect hooks)     *)
(* that React runs after the re-render the handler causes.                 *)
(***************************************************************************)
EXTENDS Integers, Sequences, FiniteSets, TLC

\* ------------------------------------------------------------------ bounds
MaxSyncs == 2              \* triggerSync invocations in one session
MaxTargetingFetches == 2   \* fetchTargeting invocations in one session
MaxCustomerFetches == 3    \* fetchCustomers invocations in one session
MaxOverlapFetches == 2     \* /api/overlap requests in one session

\* --------------------------------------------------------------- constants
CRM_LIMIT == 50

Null == "null"             \* JavaScript null / undefined / an absent field
NoEvent == ""              \* the '' option of the target event select

ErrorStrings == {"rate limited"}
EventLists == {<<>>, <<"A", "B">>}
TicketCounts == {0, 7}
StatusBodies == [done : BOOLEAN, error : {Null} \cup ErrorStrings]
TargetingTokens == {Null, "tok"}

\* the value of `dashboard` before the first response (useState(null))
NoSnapshot ==
  [present |-> FALSE, events |-> <<>>, tickets |-> 0, segments |-> {},
   running |-> FALSE, error |-> Null, epoch |-> 0]

\* response bodies of /api/dashboard: events, portfolio.total_tickets,
\* customers.segments, sync.running, sync.error
SnapshotBodies(segs) ==
  [events : EventLists, tickets : TicketCounts, segments : segs,
   running : BOOLEAN, error : {Null} \cup ErrorStrings]

\* the value of `targeting` / `intel` before the first response
NoPayload == [present |-> FALSE, event |-> NoEvent, token |-> Null]

NoOverlap == [present |-> FALSE, cities |-> <<>>]

\* the value of `customers` before the first response (useState([]))
NoParams ==
  [search |-> "", segment |-> "", city |-> "", type |-> "", sort |-> "",
   order |-> "", page |-> 0]

NoCustomers == [present |-> FALSE, params |-> NoParams, total |-> 0]

VARIABLES
  \* React state of CraftDashboard
  tab, dashboard, selectedEvent, loading, syncing, syncError,
  crmView, targetEvent, targeting, targetingLoading, selectedAudience,
  intel, intelLoading,
  overlap, overlapLoading, overlapCity, overlapView,
  crmSearch, crmSegment, crmCity, crmType, crmSort, crmOrder, crmPage,
  crmCities, crmTypes, customers, customerTotal,
  \* outstanding work of the event loop
  dashboardReqs,    \* /api/dashboard requests in flight, per epoch of issue
  dashboardTimers,  \* pending setTimeout(fetchDashboard, 10000)
  chains,           \* one record per triggerSync call: its polling chain
  targetingFetch,   \* /api/targeting requests: in flight, issued, latest outcome
  intelFetch,       \* /api/intelligence requests: in flight, issued, latest outcome
  overlapFetch,     \* /api/overlap requests: in flight, issued, latest outcome
  customersFetch,   \* /api/customers requests: in flight, issued, latest outcome
  citiesReqs,       \* /api/customers/cities requests in flight
  typesReqs,        \* /api/customers/event-types requests in flight
  \* output of the page
  opened,           \* the URLs passed to window.open, in order
  rendered,         \* what the component rendered last put on screen
  \* the handler that ran last (observation only, never read by a handler)
  last

navVars == <<tab, crmView>>
syncUi == <<dashboard, selectedEvent, loading, syncing, syncError>>
syncNet == <<dashboardReqs, dashboardTimers, chains>>
targetingVars ==
  <<targetEvent, targeting, targetingLoading, selectedAudience, intel,
    intelLoading, targetingFetch, intelFetch>>
overlapVars == <<overlap, overlapLoading, overlapCity, overlapView, overlapFetch>>
browseParams ==
  <<crmSearch, crmSegment, crmCity, crmType, crmSort, crmOrder, crmPage>>
browseVars ==
  <<browseParams, crmCities, crmTypes, customers, customerTotal,
    customersFetch, citiesReqs, typesReqs>>
outVars == <<opened, rendered>>
vars ==
  <<navVars, syncUi, syncNet, targetingVars, overlapVars, browseVars, outVars,
    last>>

Epochs == 0..MaxSyncs

Elems(seq) == {seq[i] : i \in 1..Len(seq)}

\* the requests of one endpoint: those in flight (numbered in order of issue,
\* with the event id or query they carry), how many were issued, and the
\* outcome of the one issued last
NoFetches == [reqs |-> {}, issued |-> 0, latest |-> "none"]

Issue(f, key) ==
  [reqs |-> f.reqs \cup {[id |-> f.issued + 1, key |-> key]},
   issued |-> f.issued + 1, latest |-> "pending"]

Pending(f) == {r.id : r \in f.reqs}

Req(f, i) == CHOOSE r \in f.reqs : r.id = i

Resolve(f, i, outcome) ==
  [reqs |-> f.reqs \ {Req(f, i)}, issued |-> f.issued,
   latest |-> IF i = f.issued THEN outcome ELSE f.latest]

Did(op, chain, flag, arg) ==
  [op |-> op, chain |-> chain, flag |-> flag, arg |-> arg]

\* ------------------------------------------------------------------- Init
NoChains == <<>>

\* no presentational component has been rendered with data yet
NothingRendered == [site |-> "none"]

Init ==
  /\ tab = "events"
  /\ dashboard = NoSnapshot
  /\ selectedEvent = Null
  /\ loading = TRUE
  /\ syncing = FALSE
  /\ syncError = Null
  /\ crmView = "targeting"
  /\ targetEvent = NoEvent
  /\ targeting = NoPayload
  /\ targetingLoading = FALSE
  /\ selectedAudience = Null
  /\ intel = NoPayload
  /\ intelLoading = FALSE
  /\ overlap = NoOverlap
  /\ overlapLoading = FALSE
  /\ overlapCity = ""
  /\ overlapView = "matrix"
  /\ crmSearch = ""
  /\ crmSegment = ""
  /\ crmCity = ""
  /\ crmType = ""
  /\ crmSort = "ltv_score"
  /\ crmOrder = "DESC"
  /\ crmPage = 0
  /\ crmCities = <<>>
  /\ crmTypes = <<>>
  /\ customers = NoCustomers
  /\ customerTotal = 0
  \* useEffect(() => { fetchDashboard(); }, []) has run on mount
  /\ dashboardReqs = [e \in Epochs |-> IF e = 0 THEN 1 ELSE 0]
  /\ dashboardTimers = 0
  /\ chains = NoChains
  /\ targetingFetch = NoFetches
  /\ intelFetch = NoFetches
  /\ overlapFetch = NoFetches
  /\ customersFetch = NoFetches
  /\ citiesReqs = 0
  /\ typesReqs = 0
  /\ opened = <<>>
  /\ rendered = NothingRendered
  /\ last = Did("mount", 0, FALSE, "")


\* ---------------------------------------------------------------- effects
\* The hooks below run after the render that follows a handler, when one of
\* their dependencies differs from the previous render.  Unprimed variables
\* are the previous render's values, the parameters the new ones.

\* useEffect at line 627: pick the first event as target when none is chosen
TargetAfterEffects(tabNew, viewNew, te, dNew, dashChanged) ==
  IF /\ (tabNew # tab \/ viewNew # crmView \/ dashChanged)
     /\ tabNew = "crm" /\ viewNew = "targeting"
     /\ te = NoEvent /\ Len(dNew.events) > 0
  THEN dNew.events[1]
  ELSE te

\* faulty variant: the effect does not test which tab is shown
FetchesTargeting_anyTab(tabNew, viewNew, te) ==
  /\ (tabNew # tab \/ viewNew # crmView \/ te # targetEvent)
  /\ viewNew = "targeting" /\ te # NoEvent
\* useEffect at line 626: does it call fetchTargeting(te)?
FetchesTargeting(tabNew, viewNew, te) ==
  /\ (tabNew # tab \/ viewNew # crmView \/ te # targetEvent)
  /\ tabNew = "crm" /\ viewNew = "targeting" /\ te # NoEvent

\* fetchTargeting(eventId) for a non-empty eventId
fetchTargeting(eventId) ==
  /\ targetingFetch.issued < MaxTargetingFetches
  /\ targetingLoading' = TRUE
  /\ selectedAudience' = Null
  /\ targetingFetch' = Issue(targetingFetch, eventId)
  /\ intelLoading' = TRUE
  /\ intelFetch' = Issue(intelFetch, eventId)
  /\ UNCHANGED <<targeting, intel>>

TargetingEffects(tabNew, viewNew, te, dNew, dashChanged) ==
  LET te2 == TargetAfterEffects(tabNew, viewNew, te, dNew, dashChanged) IN
  /\ targetEvent' = te2
  /\ IF FetchesTargeting(tabNew, viewNew, te2)
     THEN fetchTargeting(te2)
     ELSE UNCHANGED <<targeting, targetingLoading, selectedAudience, intel,
                      intelLoading, targetingFetch, intelFetch>>

\* faulty variant: the effect does not test whether a report is stored
OverlapEffect_noCache(tabNew) ==
  /\ IF tabNew # tab /\ tabNew = "overlap" /\ ~overlapLoading
     THEN /\ overlapFetch.issued < MaxOverlapFetches
          /\ overlapLoading' = TRUE
          /\ overlapFetch' = Issue(overlapFetch, "")
     ELSE UNCHANGED <<overlapLoading, overlapFetch>>
  /\ UNCHANGED <<overlap, overlapCity, overlapView>>
\* useEffect at lines 615-624, request part
OverlapEffect(tabNew) ==
  /\ IF tabNew # tab /\ tabNew = "overlap" /\ ~overlap.present /\ ~overlapLoading
     THEN /\ overlapFetch.issued < MaxOverlapFetches
          /\ overlapLoading' = TRUE
          /\ overlapFetch' = Issue(overlapFetch, "")
     ELSE UNCHANGED <<overlapLoading, overlapFetch>>
  /\ UNCHANGED <<overlap, overlapCity, overlapView>>

\* the query parameters fetchCustomers builds from the state it closes over
CurrentParams ==
  [search |-> crmSearch, segment |-> crmSegment, city |-> crmCity,
   type |-> crmType, sort |-> crmSort, order |-> crmOrder, page |-> crmPage]

\* faulty variant: the page number is sent as the offset
URLSearchParams_pageAsOffset(p) ==
  << <<"limit", ToString(CRM_LIMIT)>>, <<"offset", ToString(p.page)>>,
     <<"sort", p.sort>>, <<"order", p.order>> >>
    \o (IF p.search # "" THEN << <<"search", p.search>> >> ELSE <<>>)
    \o (IF p.segment # "" THEN << <<"segment", p.segment>> >> ELSE <<>>)
    \o (IF p.city # "" THEN << <<"city", p.city>> >> ELSE <<>>)
    \o (IF p.type # "" THEN << <<"event_type", p.type>> >> ELSE <<>>)
\* lines 589-593: new URLSearchParams({ limit, offset, sort, order }) and the
\* conditional params.set calls; the entries as name/value strings, in order
URLSearchParams(p) ==
  << <<"limit", ToString(CRM_LIMIT)>>, <<"offset", ToString(p.page * CRM_LIMIT)>>,
     <<"sort", p.sort>>, <<"order", p.order>> >>
    \o (IF p.search # "" THEN << <<"search", p.search>> >> ELSE <<>>)
    \o (IF p.segment # "" THEN << <<"segment", p.segment>> >> ELSE <<>>)
    \o (IF p.city # "" THEN << <<"city", p.city>> >> ELSE <<>>)
    \o (IF p.type # "" THEN << <<"event_type", p.type>> >> ELSE <<>>)

\* lines 588-595: the request carries the query, the handler of its response
\* is modelled by CustomersResponse
fetchCustomers(p) ==
  /\ customersFetch.issued < MaxCustomerFetches
  /\ customersFetch' =
       [reqs |-> customersFetch.reqs
                   \cup {[id |-> customersFetch.issued + 1, key |-> p,
                          query |-> URLSearchParams(p)]},
        issued |-> customersFetch.issued + 1, latest |-> "pending"]

\* useEffect at lines 597-605, after the state setters of a handler
BrowseEffects(tabNew, viewNew, p) ==
  /\ crmSearch' = p.search
  /\ crmSegment' = p.segment
  /\ crmCity' = p.city
  /\ crmType' = p.type
  /\ crmSort' = p.sort
  /\ crmOrder' = p.order
  /\ crmPage' = p.page
  /\ IF /\ (tabNew # tab \/ viewNew # crmView \/ p # CurrentParams)
        /\ tabNew = "crm" /\ viewNew = "browse"
     THEN /\ fetchCustomers(p)
          /\ IF Len(crmCities) = 0
             THEN citiesReqs' = citiesReqs + 1 /\ typesReqs' = typesReqs + 1
             ELSE UNCHANGED <<citiesReqs, typesReqs>>
     ELSE UNCHANGED <<customersFetch, citiesReqs, typesReqs>>
  /\ UNCHANGED <<crmCities, crmTypes, customers, customerTotal>>

\* ------------------------------------------------------- dashboard snapshot
\* const isEmpty = !events?.length && !portfolio?.total_tickets
isEmpty == Len(dashboard.events) = 0 /\ dashboard.tickets = 0

\* number of finished syncs: status responses with done seen so far
syncsDone == Cardinality({c \in 1..Len(chains) : chains[c].done})

\* fetchDashboard(): one more /api/dashboard request in flight
fetchDashboard(reqs, epoch) == [reqs EXCEPT ![epoch] = @ + 1]

DashboardInFlight ==
  LET Sum[e \in -1..MaxSyncs] ==
        IF e = -1 THEN 0 ELSE Sum[e - 1] + dashboardReqs[e]
  IN Sum[MaxSyncs]

\* faulty variant: the re-fetch timer is set for every snapshot
RefetchesAfterSnapshot_always(d) == 1
\* line 582: setTimeout(fetchDashboard, 10000) only while running
RefetchesAfterSnapshot(d) == IF d.running THEN 1 ELSE 0

\* line 583: a snapshot that is not running may carry the last sync's error
SyncErrorAfterSnapshot(d) ==
  IF ~d.running /\ d.error # Null THEN d.error ELSE syncError

\* .then(d => { ... }) of fetchDashboard, lines 578-584
DashboardResponse(e, body) ==
  /\ dashboardReqs[e] > 0
  /\ dashboardReqs' = [dashboardReqs EXCEPT ![e] = @ - 1]
  /\ LET d == [present |-> TRUE, events |-> body.events,
               tickets |-> body.tickets, segments |-> body.segments,
               running |-> body.running, error |-> body.error, epoch |-> e]
     IN /\ dashboard' = d
        /\ selectedEvent' = IF Len(d.events) > 0 THEN d.events[1] ELSE selectedEvent
        /\ loading' = FALSE
        /\ syncing' = d.running
        /\ dashboardTimers' = dashboardTimers + RefetchesAfterSnapshot(d)
        /\ syncError' = SyncErrorAfterSnapshot(d)
        /\ TargetingEffects(tab, crmView, targetEvent, d, TRUE)
        /\ last' = Did("dashboardResponse", 0, d.running, d.error)
        /\ UNCHANGED outVars
  /\ UNCHANGED <<navVars, chains, overlapVars, browseVars>>

\* faulty variant: the catch handler leaves the loading screen up
DashboardFailure_keepsLoading(e) ==
  /\ dashboardReqs[e] > 0
  /\ dashboardReqs' = [dashboardReqs EXCEPT ![e] = @ - 1]
  /\ last' = Did("dashboardFailure", 0, FALSE, "")
  /\ UNCHANGED outVars
  /\ UNCHANGED <<navVars, dashboard, selectedEvent, loading, syncing, syncError,
                 dashboardTimers, chains, targetingVars, overlapVars, browseVars>>
\* .catch(() => setLoading(false)) of fetchDashboard: network or parse failure
DashboardFailure(e) ==
  /\ dashboardReqs[e] > 0
  /\ dashboardReqs' = [dashboardReqs EXCEPT ![e] = @ - 1]
  /\ loading' = FALSE
  /\ last' = Did("dashboardFailure", 0, FALSE, "")
  /\ UNCHANGED outVars
  /\ UNCHANGED <<navVars, dashboard, selectedEvent, syncing, syncError,
                 dashboardTimers, chains, targetingVars, overlapVars, browseVars>>

\* the 10 s timer of line 582 fires
DashboardTimer ==
  /\ dashboardTimers > 0
  /\ dashboardTimers' = dashboardTimers - 1
  /\ dashboardReqs' = fetchDashboard(dashboardReqs, syncsDone)
  /\ last' = Did("dashboardTimer", 0, FALSE, "")
  /\ UNCHANGED outVars
  /\ UNCHANGED <<navVars, syncUi, chains, targetingVars, overlapVars, browseVars>>

\* EventCard click, lines 65 and 708: onSelect(event) is setSelectedEvent(event)
SelectEvent(e) ==
  /\ ~loading /\ tab = "events"
  /\ e \in Elems(dashboard.events)
  /\ selectedEvent' = e
  /\ last' = Did("selectEvent", 0, FALSE, e)
  /\ UNCHANGED outVars
  /\ UNCHANGED <<navVars, dashboard, loading, syncing, syncError, syncNet,
                 targetingVars, overlapVars, browseVars>>

\* --------------------------------------------------------------- triggerSync
NewChain == [syncReq |-> 1, pollTimers |-> 0, statusReqs |-> 0, done |-> FALSE]

\* lines 649-651: the synchronous part of triggerSync
triggerSync ==
  /\ Len(chains) < MaxSyncs
  /\ syncing' = TRUE
  /\ syncError' = Null
  /\ chains' = Append(chains, NewChain)
  /\ UNCHANGED <<navVars, dashboard, selectedEvent, loading, dashboardReqs,
                 dashboardTimers, targetingVars, overlapVars, browseVars>>

\* faulty variant: onClick={triggerSync} without the syncing test
ClickRefresh_unguarded ==
  /\ ~loading
  /\ triggerSync
  /\ last' = Did("clickRefresh", 0, FALSE, "")
  /\ UNCHANGED outVars
\* header button, line 680: onClick={() => { if (!syncing) triggerSync(); }}
ClickRefresh ==
  /\ ~loading
  /\ IF ~syncing
     THEN triggerSync
     ELSE UNCHANGED <<navVars, syncUi, syncNet, targetingVars, overlapVars, browseVars>>
  /\ last' = Did("clickRefresh", 0, FALSE, "")
  /\ UNCHANGED outVars

\* empty-state button, lines 689-693, rendered when isEmpty && !syncing
ClickSyncNow ==
  /\ ~loading
  /\ isEmpty /\ ~syncing
  /\ triggerSync
  /\ last' = Did("clickSyncNow", 0, FALSE, "")
  /\ UNCHANGED outVars

\* line 651-653: /api/sync answered, first poll scheduled
SyncResponse(c) ==
  /\ c \in 1..Len(chains)
  /\ chains[c].syncReq > 0
  /\ chains' = [chains EXCEPT ![c].syncReq = @ - 1, ![c].pollTimers = @ + 1]
  /\ last' = Did("syncResponse", c, FALSE, "")
  /\ UNCHANGED outVars
  /\ UNCHANGED <<navVars, syncUi, dashboardReqs, dashboardTimers,
                 targetingVars, overlapVars, browseVars>>

\* /api/sync rejected or unparsable: the promise chain has no catch
SyncFailure(c) ==
  /\ c \in 1..Len(chains)
  /\ chains[c].syncReq > 0
  /\ chains' = [chains EXCEPT ![c].syncReq = @ - 1]
  /\ last' = Did("syncFailure", c, FALSE, "")
  /\ UNCHANGED outVars
  /\ UNCHANGED <<navVars, syncUi, dashboardReqs, dashboardTimers,
                 targetingVars, overlapVars, browseVars>>

\* faulty variant: setInterval(poll, 5000), the timer stays armed
PollTimer_setInterval(c) ==
  /\ c \in 1..Len(chains)
  /\ chains[c].pollTimers > 0
  /\ chains[c].statusReqs < 2
  /\ chains' = [chains EXCEPT ![c].statusReqs = @ + 1]
  /\ last' = Did("pollTimer", c, FALSE, "")
  /\ UNCHANGED outVars
  /\ UNCHANGED <<navVars, syncUi, dashboardReqs, dashboardTimers,
                 targetingVars, overlapVars, browseVars>>
\* faulty variant: the timer fires but poll() issues no request
PollTimer_noRequest(c) ==
  /\ c \in 1..Len(chains)
  /\ chains[c].pollTimers > 0
  /\ chains' = [chains EXCEPT ![c].pollTimers = @ - 1]
  /\ last' = Did("pollTimer", c, FALSE, "")
  /\ UNCHANGED outVars
  /\ UNCHANGED <<navVars, syncUi, dashboardReqs, dashboardTimers,
                 targetingVars, overlapVars, browseVars>>
\* a 5 s poll timer fires: poll() issues one /api/sync-status request
PollTimer(c) ==
  /\ c \in 1..Len(chains)
  /\ chains[c].pollTimers > 0
  /\ chains' = [chains EXCEPT ![c].pollTimers = @ - 1, ![c].statusReqs = @ + 1]
  /\ last' = Did("pollTimer", c, FALSE, "")
  /\ UNCHANGED outVars
  /\ UNCHANGED <<navVars, syncUi, dashboardReqs, dashboardTimers,
                 targetingVars, overlapVars, browseVars>>

\* faulty variant: setSyncError(s.error) whether or not an error is present
SyncErrorAfterStatus_assign(s) == s.error
\* line 652: if (s.error) setSyncError(s.error)
SyncErrorAfterStatus(s) == IF s.error # Null THEN s.error ELSE syncError

\* line 652: .then(s => { if (s.done) {...} else setTimeout(poll, 5000); })
StatusResponse(c, s) ==
  /\ c \in 1..Len(chains)
  /\ chains[c].statusReqs > 0
  /\ IF s.done
     THEN /\ syncing' = FALSE
          /\ syncError' = SyncErrorAfterStatus(s)
          /\ chains' = [chains EXCEPT ![c].statusReqs = @ - 1, ![c].done = TRUE]
          /\ dashboardReqs' = fetchDashboard(dashboardReqs, syncsDone')
     ELSE /\ chains' = [chains EXCEPT ![c].statusReqs = @ - 1, ![c].pollTimers = @ + 1]
          /\ UNCHANGED <<syncing, syncError, dashboardReqs>>
  /\ last' = Did("statusResponse", c, s.done, s.error)
  /\ UNCHANGED outVars
  /\ UNCHANGED <<navVars, dashboard, selectedEvent, loading, dashboardTimers,
                 targetingVars, overlapVars, browseVars>>

\* /api/sync-status rejected or unparsable: no catch, the chain stops
StatusFailure(c) ==
  /\ c \in 1..Len(chains)
  /\ chains[c].statusReqs > 0
  /\ chains' = [chains EXCEPT ![c].statusReqs = @ - 1]
  /\ last' = Did("statusFailure", c, FALSE, "")
  /\ UNCHANGED outVars
  /\ UNCHANGED <<navVars, syncUi, dashboardReqs, dashboardTimers,
                 targetingVars, overlapVars, browseVars>>

\* ------------------------------------------------------ sync specification
SyncSnapshots == SnapshotBodies({{}})

NextSync ==
  \/ \E e \in Epochs, body \in SyncSnapshots : DashboardResponse(e, body)
  \/ \E e \in Epochs : DashboardFailure(e)
  \/ DashboardTimer
  \/ ClickRefresh
  \/ ClickSyncNow
  \/ \E c \in 1..MaxSyncs : SyncResponse(c)
  \/ \E c \in 1..MaxSyncs : SyncFailure(c)
  \/ \E c \in 1..MaxSyncs : PollTimer(c)
  \/ \E c \in 1..MaxSyncs, s \in StatusBodies : StatusResponse(c, s)
  \/ \E c \in 1..MaxSyncs : StatusFailure(c)
  \/ \E e \in {"A", "B"} : SelectEvent(e)

SpecSync == Init /\ [][NextSync]_vars

\* --------------------------------- sync specification, requests are settled
\* the promise of a /api/dashboard fetch is fulfilled or rejected in the end
DashboardSettles ==
  \E e \in Epochs :
    \/ \E body \in SyncSnapshots : DashboardResponse(e, body)
    \/ DashboardFailure(e)

SpecLoading == Init /\ [][NextSync]_vars /\ WF_vars(DashboardSettles)

\* ------------------------------------------ sync specification, no failures
\* Every request is answered, every timer fires, the status endpoint keeps
\* being able to report done and the snapshot to report "not running".
StatusDone(c) == \E s \in StatusBodies : s.done /\ StatusResponse(c, s)

SnapshotIdle ==
  \E e \in Epochs, body \in SyncSnapshots : ~body.running /\ DashboardResponse(e, body)

NextSyncLive ==
  \/ \E e \in Epochs, body \in SyncSnapshots : DashboardResponse(e, body)
  \/ DashboardTimer
  \/ ClickRefresh
  \/ ClickSyncNow
  \/ \E c \in 1..MaxSyncs : SyncResponse(c)
  \/ \E c \in 1..MaxSyncs : PollTimer(c)
  \/ \E c \in 1..MaxSyncs, s \in StatusBodies : StatusResponse(c, s)

FairSync ==
  /\ WF_vars(DashboardTimer)
  /\ WF_vars(\E e \in Epochs, body \in SyncSnapshots : DashboardResponse(e, body))
  /\ SF_vars(SnapshotIdle)
  /\ \A c \in 1..MaxSyncs :
       /\ WF_vars(SyncResponse(c))
       /\ WF_vars(PollTimer(c))
       /\ WF_vars(\E s \in StatusBodies : StatusResponse(c, s))
       /\ SF_vars(StatusDone(c))

SpecSyncLive == Init /\ [][NextSyncLive]_vars /\ FairSync


\* ---------------------------------------------------------------- navigation
Tabs == {"events", "crm", "overlap"}
CrmViews == {"targeting", "browse"}

\* header tab buttons, line 678: onClick={() => setTab(t)}
SetTab(t) ==
  /\ ~loading
  /\ tab' = t
  /\ UNCHANGED crmView
  /\ TargetingEffects(t, crmView, targetEvent, dashboard, FALSE)
  /\ BrowseEffects(t, crmView, CurrentParams)
  /\ OverlapEffect(t)
  /\ last' = Did("setTab", 0, FALSE, t)
  /\ UNCHANGED outVars
  /\ UNCHANGED <<syncUi, syncNet>>

\* CRM sub-nav buttons, lines 721-726: onClick={() => setCrmView(v)}
SetCrmView(v) ==
  /\ ~loading /\ tab = "crm"
  /\ crmView' = v
  /\ UNCHANGED tab
  /\ TargetingEffects(tab, v, targetEvent, dashboard, FALSE)
  /\ BrowseEffects(tab, v, CurrentParams)
  /\ last' = Did("setCrmView", 0, FALSE, v)
  /\ UNCHANGED outVars
  /\ UNCHANGED <<syncUi, syncNet, overlapVars>>

\* ----------------------------------------------------------------- targeting
TargetingVisible == ~loading /\ tab = "crm" /\ crmView = "targeting"

\* the options of the target event select, lines 743-750
TargetOptions == {NoEvent} \cup {dashboard.events[i] : i \in 1..Len(dashboard.events)}

\* line 743: onChange={e => setTargetEvent(e.target.value)}
SetTargetEvent(e) ==
  /\ TargetingVisible
  /\ e \in TargetOptions /\ e # targetEvent
  /\ TargetingEffects(tab, crmView, e, dashboard, FALSE)
  /\ last' = Did("setTargetEvent", 0, FALSE, e)
  /\ UNCHANGED outVars
  /\ UNCHANGED <<navVars, syncUi, syncNet, overlapVars, browseVars>>

\* line 610: .then(d => { setTargeting(d); setTargetingLoading(false); })
TargetingResponse(i, tok) ==
  /\ i \in Pending(targetingFetch)
  /\ targeting' = [present |-> TRUE, event |-> Req(targetingFetch, i).key, token |-> tok]
  /\ targetingLoading' = FALSE
  /\ targetingFetch' = Resolve(targetingFetch, i, "ok")
  /\ last' = Did("targetingResponse", i, FALSE, Req(targetingFetch, i).key)
  /\ UNCHANGED outVars
  /\ UNCHANGED <<navVars, syncUi, syncNet, targetEvent, selectedAudience, intel,
                 intelLoading, intelFetch, overlapVars, browseVars>>

\* faulty variant: the catch handler also drops the payload on screen
TargetingFailure_clears(i) ==
  /\ i \in Pending(targetingFetch)
  /\ targetingLoading' = FALSE
  /\ targeting' = NoPayload
  /\ targetingFetch' = Resolve(targetingFetch, i, "failed")
  /\ last' = Did("targetingFailure", i, FALSE, Req(targetingFetch, i).key)
  /\ UNCHANGED outVars
  /\ UNCHANGED <<navVars, syncUi, syncNet, targetEvent, selectedAudience,
                 intel, intelLoading, intelFetch, overlapVars, browseVars>>
\* line 610: .catch(() => setTargetingLoading(false))
TargetingFailure(i) ==
  /\ i \in Pending(targetingFetch)
  /\ targetingLoading' = FALSE
  /\ targetingFetch' = Resolve(targetingFetch, i, "failed")
  /\ last' = Did("targetingFailure", i, FALSE, Req(targetingFetch, i).key)
  /\ UNCHANGED outVars
  /\ UNCHANGED <<navVars, syncUi, syncNet, targetEvent, targeting, selectedAudience,
                 intel, intelLoading, intelFetch, overlapVars, browseVars>>

\* line 612: .then(d => { setIntel(d); setIntelLoading(false); })
IntelResponse(i, tok) ==
  /\ i \in Pending(intelFetch)
  /\ intel' = [present |-> TRUE, event |-> Req(intelFetch, i).key, token |-> tok]
  /\ intelLoading' = FALSE
  /\ intelFetch' = Resolve(intelFetch, i, "ok")
  /\ last' = Did("intelResponse", i, FALSE, Req(intelFetch, i).key)
  /\ UNCHANGED outVars
  /\ UNCHANGED <<navVars, syncUi, syncNet, targetEvent, targeting, targetingLoading,
                 selectedAudience, targetingFetch, overlapVars, browseVars>>

\* line 612: .catch(() => setIntelLoading(false))
IntelFailure(i) ==
  /\ i \in Pending(intelFetch)
  /\ intelLoading' = FALSE
  /\ intelFetch' = Resolve(intelFetch, i, "failed")
  /\ last' = Did("intelFailure", i, FALSE, Req(intelFetch, i).key)
  /\ UNCHANGED outVars
  /\ UNCHANGED <<navVars, syncUi, syncNet, targetEvent, targeting, targetingLoading,
                 selectedAudience, intel, targetingFetch, overlapVars, browseVars>>

\* ------------------------------------------------------------------ exports
\* the characters of the strings that are put into an export URL
Chars(s) ==
  CASE s = "" -> <<>>
    [] s = "A" -> <<"A">>
    [] s = "B" -> <<"B">>
    [] s = "past_attendees" -> <<"p", "a", "s", "t", "_", "a", "t", "t", "e", "n", "d", "e", "e", "s">>
    [] s = "at_risk" -> <<"a", "t", "_", "r", "i", "s", "k">>
    [] s = "all" -> <<"a", "l", "l">>
    [] s = "vips" -> <<"v", "i", "p", "s">>
    [] s = "tok" -> <<"t", "o", "k">>
    [] s = "a&b=c" -> <<"a", "&", "b", "=", "c">>
    [] s = "event_id=" -> <<"e", "v", "e", "n", "t", "_", "i", "d", "=">>
    [] s = "&audience=" -> <<"&", "a", "u", "d", "i", "e", "n", "c", "e", "=">>
    [] s = "&key=" -> <<"&", "k", "e", "y", "=">>
    [] s = "?" -> <<"?">>
    [] s = "event_id" -> <<"e", "v", "e", "n", "t", "_", "i", "d">>
    [] s = "audience" -> <<"a", "u", "d", "i", "e", "n", "c", "e">>
    [] s = "key" -> <<"k", "e", "y">>
    [] s = "timing" -> <<"t", "i", "m", "i", "n", "g">>
    [] s = "&timing=" -> <<"&", "t", "i", "m", "i", "n", "g", "=">>
    [] s = "early" -> <<"e", "a", "r", "l", "y">>
    [] s = "late" -> <<"l", "a", "t", "e">>

\* the characters encodeURIComponent escapes, with their UTF-8 escapes
PercentCode ==
  [c \in {"&", "=", "%", "+", " ", "/", "?", "#"} |->
     CASE c = "&" -> <<"%", "2", "6">>
       [] c = "=" -> <<"%", "3", "D">>
       [] c = "%" -> <<"%", "2", "5">>
       [] c = "+" -> <<"%", "2", "B">>
       [] c = " " -> <<"%", "2", "0">>
       [] c = "/" -> <<"%", "2", "F">>
       [] c = "?" -> <<"%", "3", "F">>
       [] c = "#" -> <<"%", "2", "3">>]

RECURSIVE encodeURIComponent(_)
encodeURIComponent(cs) ==
  IF cs = <<>> THEN <<>>
  ELSE (IF Head(cs) \in DOMAIN PercentCode THEN PercentCode[Head(cs)]
        ELSE <<Head(cs)>>) \o encodeURIComponent(Tail(cs))

\* faulty variant: the token is appended as it is
KeyParam_raw(token) ==
  IF token # Null /\ token # "" THEN Chars("&key=") \o Chars(token) ELSE <<>>
\* lines 634, 639, 644: token ? `&key=${encodeURIComponent(token)}` : ''
KeyParam(token) ==
  IF token # Null /\ token # ""
  THEN Chars("&key=") \o encodeURIComponent(Chars(token))
  ELSE <<>>

\* lines 635, 640, 645: the URL given to window.open, after API_BASE
ExportUrl(path, eventId, audienceKey, token) ==
  [path |-> path,
   query |-> Chars("event_id=") \o Chars(eventId) \o Chars("&audience=")
               \o Chars(audienceKey) \o KeyParam(token)]

MaxExports == 2            \* window.open calls in one session

\* the export buttons are inside the block of line 774
ExportVisible == TargetingVisible /\ ~targetingLoading /\ targeting.present

\* the body shared by the three export handlers
OpenExport(path, audienceKey, token) ==
  /\ Len(opened) < MaxExports
  /\ opened' = IF targetEvent = NoEvent THEN opened
               ELSE Append(opened, ExportUrl(path, targetEvent, audienceKey, token))
  /\ UNCHANGED <<navVars, syncUi, syncNet, targetingVars, overlapVars,
                 browseVars, rendered>>

\* AudienceCard, line 242: onSelect(isActive ? null : audienceKey)
SelectAudience(audienceKey) ==
  /\ ExportVisible
  /\ selectedAudience' = IF selectedAudience = audienceKey THEN Null ELSE audienceKey
  /\ last' = Did("selectAudience", 0, FALSE, audienceKey)
  /\ UNCHANGED <<navVars, syncUi, syncNet, targetEvent, targeting,
                 targetingLoading, intel, intelLoading, targetingFetch,
                 intelFetch, overlapVars, browseVars, outVars>>

\* lines 632-636, called from the audience cards and the detail header
handleExportCSV(audienceKey) ==
  /\ ExportVisible
  /\ OpenExport("/api/export/csv", audienceKey, targeting.token)
  /\ last' = Did("handleExportCSV", 0, FALSE, audienceKey)

\* lines 637-641; the Export All button of lines 728-732 is rendered in the
\* targeting view whenever a payload is stored, also while one is loading
handleExportAll ==
  /\ TargetingVisible /\ targeting.present
  /\ OpenExport("/api/export/csv", "all", targeting.token)
  /\ last' = Did("handleExportAll", 0, FALSE, "all")

\* lines 642-646, the download buttons of the intelligence panel (line 854)
handleIntelExport(audienceKey) ==
  /\ ExportVisible /\ intel.present /\ ~intelLoading
  /\ OpenExport("/api/export/intelligence-csv", audienceKey, intel.token)
  /\ last' = Did("handleIntelExport", 0, FALSE, audienceKey)

\* line 834: rec.timing_segments?.join(',') || 'all'
TimingParam(timing_segments) ==
  LET Join[i \in 0..Len(timing_segments)] ==
        IF i = 0 THEN <<>>
        ELSE IF i = 1 THEN Chars(timing_segments[1])
        ELSE Join[i - 1] \o <<",">> \o Chars(timing_segments[i])
  IN IF Join[Len(timing_segments)] = <<>> THEN Chars("all")
     ELSE Join[Len(timing_segments)]

\* lines 832-846: the download button of a timing recommendation calls
\* window.open itself, with the target event of the render
DownloadTiming(timing_segments) ==
  /\ ExportVisible
  /\ Len(opened) < MaxExports
  /\ opened' = Append(opened,
       [path |-> "/api/export/csv",
        query |-> Chars("event_id=") \o Chars(targetEvent) \o Chars("&audience=")
                    \o Chars("timing") \o Chars("&timing=")
                    \o TimingParam(timing_segments) \o KeyParam(targeting.token)])
  /\ last' = Did("downloadTiming", 0, FALSE, "timing")
  /\ UNCHANGED <<navVars, syncUi, syncNet, targetingVars, overlapVars,
                 browseVars, rendered>>

\* --------------------------------------------------- export specification
ExportSnapshots ==
  [events : {<<"A", "B">>}, tickets : {7}, segments : {{}},
   running : {FALSE}, error : {Null}]

ExportTokens == {Null, "a&b=c"}
ExportAudiences == {"past_attendees", "at_risk"}

NextExport ==
  \/ \E body \in ExportSnapshots : DashboardResponse(0, body)
  \/ SetTab("crm")
  \/ \E e \in {NoEvent, "A", "B"} : SetTargetEvent(e)
  \/ \E i \in 1..MaxTargetingFetches, tok \in ExportTokens : TargetingResponse(i, tok)
  \/ \E k \in ExportAudiences : handleExportCSV(k)
  \/ handleExportAll

SpecExport == Init /\ [][NextExport]_vars

\* ------------------------------------------------ downloads specification
\* every control that opens an export URL, with the responses in any order
TimingSegments == {<<>>, <<"early", "late">>}

NextDownloads ==
  \/ \E body \in ExportSnapshots : DashboardResponse(0, body)
  \/ SetTab("crm")
  \/ \E e \in {NoEvent, "A", "B"} : SetTargetEvent(e)
  \/ \E i \in 1..MaxTargetingFetches : TargetingResponse(i, "tok")
  \/ \E i \in 1..MaxTargetingFetches : IntelResponse(i, "tok")
  \/ handleExportCSV("at_risk")
  \/ handleExportAll
  \/ handleIntelExport("vips")
  \/ \E segs \in TimingSegments : DownloadTiming(segs)

SpecDownloads == Init /\ [][NextDownloads]_vars

\* ------------------------------------------------ targeting specification
TargetingSnapshots ==
  [events : EventLists, tickets : {7}, segments : {{}},
   running : {FALSE}, error : {Null}]

NextTargeting ==
  \/ \E body \in TargetingSnapshots : DashboardResponse(0, body)
  \/ DashboardFailure(0)
  \/ \E t \in {"events", "crm"} : SetTab(t)
  \/ \E v \in CrmViews : SetCrmView(v)
  \/ \E e \in {NoEvent, "A", "B"} : SetTargetEvent(e)
  \/ \E i \in 1..MaxTargetingFetches, tok \in TargetingTokens : TargetingResponse(i, tok)
  \/ \E i \in 1..MaxTargetingFetches : TargetingFailure(i)
  \/ \E i \in 1..MaxTargetingFetches, tok \in TargetingTokens : IntelResponse(i, tok)
  \/ \E i \in 1..MaxTargetingFetches : IntelFailure(i)

SpecTargeting == Init /\ [][NextTargeting]_vars

\* ------------------------------------------------------------------ overlap
OverlapCityLists == {<<>>, <<"Austin", "Reno">>}

\* lines 618-622: .then(d => { setOverlap(d); ...; setOverlapLoading(false); })
OverlapResponse(i, cities) ==
  /\ i \in Pending(overlapFetch)
  /\ overlap' = [present |-> TRUE, cities |-> cities]
  /\ overlapCity' = IF Len(cities) > 0 /\ overlapCity = "" THEN cities[1]
                    ELSE overlapCity
  /\ overlapLoading' = FALSE
  /\ overlapFetch' = Resolve(overlapFetch, i, "ok")
  /\ last' = Did("overlapResponse", i, FALSE, "")
  /\ UNCHANGED <<navVars, syncUi, syncNet, targetingVars, overlapView,
                 browseVars, outVars>>

\* line 622: .catch(() => setOverlapLoading(false))
OverlapFailure(i) ==
  /\ i \in Pending(overlapFetch)
  /\ overlapLoading' = FALSE
  /\ overlapFetch' = Resolve(overlapFetch, i, "failed")
  /\ last' = Did("overlapFailure", i, FALSE, "")
  /\ UNCHANGED <<navVars, syncUi, syncNet, targetingVars, overlap, overlapCity,
                 overlapView, browseVars, outVars>>

\* line 1211: the report is on screen
OverlapVisible == ~loading /\ tab = "overlap" /\ overlap.present /\ ~overlapLoading

\* city buttons, lines 1235-1240; "All Cities" only in the retention view
SetOverlapCity(c) ==
  /\ OverlapVisible
  /\ c \in Elems(overlap.cities)
            \cup (IF overlapView = "retention" THEN {""} ELSE {})
  /\ overlapCity' = c
  /\ last' = Did("setOverlapCity", 0, FALSE, c)
  /\ UNCHANGED <<navVars, syncUi, syncNet, targetingVars, overlap,
                 overlapLoading, overlapView, overlapFetch, browseVars, outVars>>

OverlapViews == {"network", "pairs", "retention"}

\* Venn pair of the top cross-sell opportunities, lines 1222-1224:
\* setOverlapCity(pair.city); setOverlapView('pairs')
ClickVennPair(city) ==
  /\ OverlapVisible
  /\ city \in Elems(overlap.cities)
  /\ overlapCity' = city
  /\ overlapView' = "pairs"
  /\ last' = Did("clickVennPair", 0, FALSE, city)
  /\ UNCHANGED <<navVars, syncUi, syncNet, targetingVars, overlap,
                 overlapLoading, overlapFetch, browseVars, outVars>>

\* faulty variant: the toggle sets the view and leaves the city as it is
SetOverlapView_keepCity(v) ==
  /\ OverlapVisible
  /\ v \in OverlapViews
  /\ overlapView' = v
  /\ overlapCity' = IF v = "retention" THEN "" ELSE overlapCity
  /\ last' = Did("setOverlapView", 0, FALSE, v)
  /\ UNCHANGED <<navVars, syncUi, syncNet, targetingVars, overlap,
                 overlapLoading, overlapFetch, browseVars, outVars>>
\* view toggle, lines 1243-1245
SetOverlapView(v) ==
  /\ OverlapVisible
  /\ v \in OverlapViews
  /\ overlapView' = v
  /\ overlapCity' = IF v = "retention" THEN ""
                    ELSE IF overlapCity = "" /\ Len(overlap.cities) > 0
                         THEN overlap.cities[1] ELSE overlapCity
  /\ last' = Did("setOverlapView", 0, FALSE, v)
  /\ UNCHANGED <<navVars, syncUi, syncNet, targetingVars, overlap,
                 overlapLoading, overlapFetch, browseVars, outVars>>

\* ---------------------------------------------------- panels specification
\* the three tabs with their requests, successful or failing
PanelSnapshots ==
  [events : {<<"A", "B">>}, tickets : {7}, segments : {{}},
   running : {FALSE}, error : {Null}]

NextPanels ==
  \/ \E body \in PanelSnapshots : DashboardResponse(0, body)
  \/ DashboardFailure(0)
  \/ \E t \in Tabs : SetTab(t)
  \/ \E v \in CrmViews : SetCrmView(v)
  \/ \E e \in {NoEvent, "B"} : SetTargetEvent(e)
  \/ \E i \in 1..MaxTargetingFetches : TargetingResponse(i, "tok")
  \/ \E i \in 1..MaxTargetingFetches : TargetingFailure(i)
  \/ \E i \in 1..MaxTargetingFetches : IntelResponse(i, "tok")
  \/ \E i \in 1..MaxTargetingFetches : IntelFailure(i)
  \/ SelectAudience("at_risk")
  \/ \E i \in 1..MaxOverlapFetches, cities \in OverlapCityLists : OverlapResponse(i, cities)
  \/ \E i \in 1..MaxOverlapFetches : OverlapFailure(i)

SpecPanels == Init /\ [][NextPanels]_vars

\* -------------------------------------------------- failures specification
\* every request of the three tabs, answered or failing
NextFailures ==
  \/ \E body \in PanelSnapshots : DashboardResponse(0, body)
  \/ DashboardFailure(0)
  \/ \E t \in Tabs : SetTab(t)
  \/ SetTargetEvent("B")
  \/ \E i \in 1..MaxTargetingFetches : TargetingResponse(i, "tok")
  \/ \E i \in 1..MaxTargetingFetches : TargetingFailure(i)
  \/ \E i \in 1..MaxTargetingFetches : IntelResponse(i, "tok")
  \/ \E i \in 1..MaxTargetingFetches : IntelFailure(i)
  \/ \E i \in 1..MaxOverlapFetches : OverlapResponse(i, <<"Austin", "Reno">>)
  \/ \E i \in 1..MaxOverlapFetches : OverlapFailure(i)

SpecFailures == Init /\ [][NextFailures]_vars

\* ----------------------------------------------------- scope specification
\* navigation between the views, with the requests each view issues
NextScope ==
  \/ \E body \in PanelSnapshots : DashboardResponse(0, body)
  \/ \E t \in Tabs : SetTab(t)
  \/ \E v \in CrmViews : SetCrmView(v)
  \/ \E e \in {NoEvent, "A", "B"} : SetTargetEvent(e)
  \/ \E i \in 1..MaxOverlapFetches, cities \in OverlapCityLists : OverlapResponse(i, cities)
  \/ \E i \in 1..MaxOverlapFetches : OverlapFailure(i)

SpecScope == Init /\ [][NextScope]_vars

\* --------------------------------------------------- overlap specification
NextOverlap ==
  \/ \E body \in PanelSnapshots : DashboardResponse(0, body)
  \/ \E t \in Tabs : SetTab(t)
  \/ \E i \in 1..MaxOverlapFetches, cities \in OverlapCityLists : OverlapResponse(i, cities)
  \/ \E i \in 1..MaxOverlapFetches : OverlapFailure(i)
  \/ \E c \in {"", "Austin", "Reno"} : SetOverlapCity(c)
  \/ \E v \in OverlapViews : SetOverlapView(v)
  \/ \E c \in {"Austin", "Reno"} : ClickVennPair(c)

SpecOverlap == Init /\ [][NextOverlap]_vars

\* -------------------------------------------------------- browse customers
SearchTexts == {"", "ann"}
SortFields == {"ltv_score", "total_spent"}
CityLists == {<<"Austin">>}
TypeLists == {<<"beer">>}
Totals == {0, 120}         \* d.total of /api/customers (0 also when absent)

BrowseVisible == ~loading /\ tab = "crm" /\ crmView = "browse"

\* a handler of the browse view that calls state setters giving parameters p
BrowseHandler(op, arg, p) ==
  /\ BrowseVisible
  /\ BrowseEffects(tab, crmView, p)
  /\ last' = Did(op, 0, FALSE, arg)
  /\ UNCHANGED outVars
  /\ UNCHANGED <<navVars, syncUi, syncNet, targetingVars, overlapVars>>

\* segment card, line 1162: setCrmSegment(isActive ? '' : s); setCrmPage(0)
ToggleSegment(seg) ==
  /\ seg \in dashboard.segments
  /\ BrowseHandler("toggleSegment", seg,
       [CurrentParams EXCEPT !.segment = IF crmSegment = seg THEN "" ELSE seg,
                             !.page = 0])

\* search box, line 1171: setCrmSearch(e.target.value); setCrmPage(0)
SetCrmSearch(text) ==
  /\ text # crmSearch
  /\ BrowseHandler("setCrmSearch", text,
       [CurrentParams EXCEPT !.search = text, !.page = 0])

\* faulty variant: setCrmCity(e.target.value) without setCrmPage(0)
SetCrmCity_keepPage(city) ==
  /\ city \in {""} \cup Elems(crmCities) /\ city # crmCity
  /\ BrowseHandler("setCrmCity", city, [CurrentParams EXCEPT !.city = city])
\* city select, line 1173: setCrmCity(e.target.value); setCrmPage(0)
SetCrmCity(city) ==
  /\ city \in {""} \cup Elems(crmCities) /\ city # crmCity
  /\ BrowseHandler("setCrmCity", city,
       [CurrentParams EXCEPT !.city = city, !.page = 0])

\* type select, line 1178: setCrmType(e.target.value); setCrmPage(0)
SetCrmType(type) ==
  /\ type \in {""} \cup Elems(crmTypes) /\ type # crmType
  /\ BrowseHandler("setCrmType", type,
       [CurrentParams EXCEPT !.type = type, !.page = 0])

\* Clear filters button, lines 1183-1186, rendered when a filter is set
ClearFilters ==
  /\ crmSearch # "" \/ crmSegment # "" \/ crmCity # "" \/ crmType # ""
  /\ BrowseHandler("clearFilters", "",
       [CurrentParams EXCEPT !.search = "", !.segment = "", !.city = "",
                             !.type = "", !.page = 0])

\* line 1191: crmOrder === 'DESC' ? 'ASC' : 'DESC'
FlipOrder(order) == IF order = "DESC" THEN "ASC" ELSE "DESC"

\* faulty variant: the order is flipped for a new field as well
SortAfter_alwaysFlip(sort, order, field) == <<field, FlipOrder(order)>>
\* line 1191, the sort field and order the handler sets for a clicked field
SortAfter(sort, order, field) ==
  IF sort = field THEN <<sort, FlipOrder(order)>> ELSE <<field, "DESC">>

\* sort header click, lines 187 and 1191: onSort(field), then setCrmPage(0)
OnSort(field) ==
  /\ field \in SortFields
  /\ BrowseHandler("onSort", field,
       [CurrentParams EXCEPT !.sort = SortAfter(crmSort, crmOrder, field)[1],
                             !.order = SortAfter(crmSort, crmOrder, field)[2],
                             !.page = 0])

\* pagination, lines 1193-1201, rendered when customerTotal > CRM_LIMIT
PreviousPage ==
  /\ customerTotal > CRM_LIMIT
  /\ crmPage # 0
  /\ BrowseHandler("previousPage", "",
       [CurrentParams EXCEPT !.page = IF crmPage - 1 > 0 THEN crmPage - 1 ELSE 0])

NextPage ==
  /\ customerTotal > CRM_LIMIT
  /\ ~((crmPage + 1) * CRM_LIMIT >= customerTotal)
  /\ BrowseHandler("nextPage", "", [CurrentParams EXCEPT !.page = crmPage + 1])

\* line 594: .then(d => { setCustomers(d.customers || []); setCustomerTotal(d.total || 0); })
CustomersResponse(i, total) ==
  /\ i \in Pending(customersFetch)
  /\ customers' = [present |-> TRUE, params |-> Req(customersFetch, i).key, total |-> total]
  /\ customerTotal' = total
  /\ customersFetch' = Resolve(customersFetch, i, "ok")
  /\ last' = Did("customersResponse", i, FALSE, "")
  /\ UNCHANGED outVars
  /\ UNCHANGED <<navVars, syncUi, syncNet, targetingVars, overlapVars,
                 browseParams, crmCities, crmTypes, citiesReqs, typesReqs>>

\* /api/customers rejected or unparsable: the promise chain has no catch
CustomersFailure(i) ==
  /\ i \in Pending(customersFetch)
  /\ customersFetch' = Resolve(customersFetch, i, "failed")
  /\ last' = Did("customersFailure", i, FALSE, "")
  /\ UNCHANGED outVars
  /\ UNCHANGED <<navVars, syncUi, syncNet, targetingVars, overlapVars,
                 browseParams, crmCities, crmTypes, customers, customerTotal,
                 citiesReqs, typesReqs>>

\* line 601: .then(setCrmCities).catch(() => {})
CitiesResponse(list) ==
  /\ citiesReqs > 0
  /\ citiesReqs' = citiesReqs - 1
  /\ crmCities' = list
  /\ last' = Did("citiesResponse", 0, FALSE, "")
  /\ UNCHANGED outVars
  /\ UNCHANGED <<navVars, syncUi, syncNet, targetingVars, overlapVars,
                 browseParams, crmTypes, customers, customerTotal,
                 customersFetch, typesReqs>>

CitiesFailure ==
  /\ citiesReqs > 0
  /\ citiesReqs' = citiesReqs - 1
  /\ last' = Did("citiesFailure", 0, FALSE, "")
  /\ UNCHANGED outVars
  /\ UNCHANGED <<navVars, syncUi, syncNet, targetingVars, overlapVars,
                 browseParams, crmCities, crmTypes, customers, customerTotal,
                 customersFetch, typesReqs>>

\* line 602: .then(setCrmTypes).catch(() => {})
TypesResponse(list) ==
  /\ typesReqs > 0
  /\ typesReqs' = typesReqs - 1
  /\ crmTypes' = list
  /\ last' = Did("typesResponse", 0, FALSE, "")
  /\ UNCHANGED outVars
  /\ UNCHANGED <<navVars, syncUi, syncNet, targetingVars, overlapVars,
                 browseParams, crmCities, customers, customerTotal,
                 customersFetch, citiesReqs>>

TypesFailure ==
  /\ typesReqs > 0
  /\ typesReqs' = typesReqs - 1
  /\ last' = Did("typesFailure", 0, FALSE, "")
  /\ UNCHANGED outVars
  /\ UNCHANGED <<navVars, syncUi, syncNet, targetingVars, overlapVars,
                 browseParams, crmCities, crmTypes, customers, customerTotal,
                 customersFetch, citiesReqs>>

\* --------------------------------------------------- browse specification
BrowseSnapshots ==
  [events : {<<>>}, tickets : {7}, segments : {{"champion"}},
   running : {FALSE}, error : {Null}]

NextBrowse ==
  \/ \E body \in BrowseSnapshots : DashboardResponse(0, body)
  \/ SetTab("crm")
  \/ SetCrmView("browse")
  \/ ToggleSegment("champion")
  \/ \E text \in SearchTexts : SetCrmSearch(text)
  \/ \E city \in {"", "Austin"} : SetCrmCity(city)
  \/ \E type \in {"", "beer"} : SetCrmType(type)
  \/ ClearFilters
  \/ \E field \in SortFields : OnSort(field)
  \/ PreviousPage
  \/ NextPage
  \/ \E i \in 1..MaxCustomerFetches, total \in Totals : CustomersResponse(i, total)
  \/ \E i \in 1..MaxCustomerFetches : CustomersFailure(i)
  \/ \E list \in CityLists : CitiesResponse(list)
  \/ \E list \in TypeLists : TypesResponse(list)

SpecBrowse == Init /\ [][NextBrowse]_vars

\* --------------------------------------------------- filters specification
\* the controls of the browse view, every list request answered with a
\* list long enough to page through
NextFilters ==
  \/ \E body \in BrowseSnapshots : DashboardResponse(0, body)
  \/ SetTab("crm")
  \/ SetCrmView("browse")
  \/ ToggleSegment("champion")
  \/ \E text \in SearchTexts : SetCrmSearch(text)
  \/ \E city \in {"", "Austin"} : SetCrmCity(city)
  \/ \E type \in {"", "beer"} : SetCrmType(type)
  \/ ClearFilters
  \/ \E field \in SortFields : OnSort(field)
  \/ PreviousPage
  \/ NextPage
  \/ \E i \in 1..MaxCustomerFetches : CustomersResponse(i, 120)
  \/ \E list \in CityLists : CitiesResponse(list)
  \/ \E list \in TypeLists : TypesResponse(list)

SpecFilters == Init /\ [][NextFilters]_vars

\* ------------------------------------------------- presentational rendering
\* The components below are functions of the data they are given.  A number
\* that may be absent (undefined or null in the response) is a record.
Absent == [has |-> FALSE, val |-> 0]
Num(n) == [has |-> TRUE, val |-> n]

\* x || 0 for an optional number: undefined, null and 0 all give 0
OrZero(x) == IF x.has /\ x.val # 0 THEN x.val ELSE 0

Math_min(a, b) == IF a < b THEN a ELSE b

\* Number.prototype.toFixed(0) of the fraction n / d with d > 0: the nearest
\* integer, halves away from zero, the sign printed first
toFixed0(n, d) ==
  IF n >= 0
  THEN ToString((2 * n + d) \div (2 * d))
  ELSE "-" \o ToString((2 * (0 - n) + d) \div (2 * d))

\* x?.toFixed(0): undefined when x is absent
OptToFixed0(x, d) ==
  IF x.has THEN [defined |-> TRUE, text |-> toFixed0(x.val, d)]
  ELSE [defined |-> FALSE, text |-> ""]

\* the text React puts in the DOM for the JSX children  $ {value}
JsxDollar(v) == IF v.defined THEN "$" \o v.text ELSE "$"

\* the string the template literal `$${value}` evaluates to
TemplateDollar(v) == IF v.defined THEN "$" \o v.text ELSE "$" \o "undefined"

\* the style tables of lines 6-41 (colour and label of each entry)
DECISIONS ==
  [pivot |-> [color |-> "#dc2626", bg |-> "#fef2f2", label |-> "PIVOT"],
   push |-> [color |-> "#ea580c", bg |-> "#fff7ed", label |-> "PUSH"],
   maintain |-> [color |-> "#16a34a", bg |-> "#f0fdf4", label |-> "MAINTAIN"],
   coast |-> [color |-> "#2563eb", bg |-> "#eff6ff", label |-> "COAST"],
   not_started |-> [color |-> "#6b7280", bg |-> "#f3f4f6", label |-> "FUTURE"]]

SEGMENTS ==
  [champion |-> [color |-> "#16a34a", bg |-> Null, label |-> "Champions"],
   loyal |-> [color |-> "#2563eb", bg |-> Null, label |-> "Loyal"],
   potential |-> [color |-> "#8b5cf6", bg |-> Null, label |-> "Potential"],
   at_risk |-> [color |-> "#ea580c", bg |-> Null, label |-> "At Risk"],
   hibernating |-> [color |-> "#dc2626", bg |-> Null, label |-> "Hibernating"],
   other |-> [color |-> "#6b7280", bg |-> Null, label |-> "Other"]]

AUDIENCE_COLORS ==
  [past_attendees |-> [color |-> "#7c3aed", bg |-> "#f5f3ff", label |-> Null],
   city_prospects |-> [color |-> "#0891b2", bg |-> "#ecfeff", label |-> Null],
   type_fans |-> [color |-> "#db2777", bg |-> "#fdf2f8", label |-> Null],
   at_risk |-> [color |-> "#ea580c", bg |-> "#fff7ed", label |-> Null]]

URGENCY_COLORS ==
  [critical |-> [color |-> "#dc2626", bg |-> "#fef2f2", label |-> "CRITICAL"],
   now |-> [color |-> "#ea580c", bg |-> "#fff7ed", label |-> "DO NOW"],
   soon |-> [color |-> "#d97706", bg |-> "#fffbeb", label |-> "THIS WEEK"]]

\* table[key] for a key the table does not have: undefined
UndefinedStyle == [color |-> Null, bg |-> Null, label |-> Null]

\* table[key]
Lookup(table, key) ==
  IF key \in DOMAIN table THEN table[key] ELSE UndefinedStyle

\* table[key] || table[fallback]
LookupOr(table, key, fallback) ==
  IF key \in DOMAIN table THEN table[key] ELSE table[fallback]

\* what a rendering puts on screen; a field a site does not have is empty
Rendering(site, key, input, style, shown, width, text) ==
  [site |-> site, key |-> key, input |-> input, style |-> style,
   shown |-> shown, width |-> width, text |-> text]

Render(r) ==
  /\ rendered' = r
  /\ UNCHANGED <<navVars, syncUi, syncNet, targetingVars, overlapVars,
                 browseVars, opened, last>>

\* --- inputs: the values the responses may carry
MaxPct == 104              \* largest percentage a response carries
MaxCents == 60             \* largest total_spent, in cents
Percentages == {Absent} \cup {Num(n) : n \in (0 - 4)..MaxPct}
DecisionKeys == {"pivot", "push", "maintain", "coast", "not_started", "cancelled", Null}
SegmentKeys == {"champion", "at_risk", "other", "vip", Null}
AudienceKeys == {"past_attendees", "city_prospects", "type_fans", "at_risk", "lapsed"}
UrgencyKeys == {"critical", "now", "soon", "later", Null}
Spends == {Absent} \cup {Num(c) : c \in 0..MaxCents}
AdSpends == {Absent} \cup {Num(n) : n \in {0, 40, 100, 150}}
Counts == {0, 3}

\* EventCard, lines 62-78: decision badge and sell-through bar
RenderEventCard(decision, sell_through) ==
  /\ decision \in DecisionKeys /\ sell_through \in Percentages
  /\ Render(Rendering("EventCard", decision, sell_through,
                      LookupOr(DECISIONS, decision, "maintain"), TRUE,
                      Math_min(100, OrZero(sell_through)), ""))

\* Revenue Gap bar, line 786
RenderRevenueGap(pct_of_last_year) ==
  /\ pct_of_last_year \in Percentages
  /\ Render(Rendering("RevenueGap", "", pct_of_last_year, UndefinedStyle, TRUE,
                      Math_min(100, OrZero(pct_of_last_year)), ""))

\* Repeat Buyer Rate bar, line 807
RenderRepeatBuyers(last_year_rebuy_rate) ==
  /\ last_year_rebuy_rate \in Percentages
  /\ Render(Rendering("RepeatBuyers", "", last_year_rebuy_rate, UndefinedStyle,
                      TRUE, Math_min(100, OrZero(last_year_rebuy_rate)), ""))

\* CustomerTable row, lines 216-225: segment badge and spend cell
RenderCustomerRow(rfm_segment, total_spent) ==
  /\ rfm_segment \in SegmentKeys /\ total_spent \in Spends
  /\ Render(Rendering("CustomerTable", rfm_segment, total_spent,
                      LookupOr(SEGMENTS, rfm_segment, "other"), TRUE, 0,
                      JsxDollar(OptToFixed0(total_spent, 100))))

\* CustomerModal, lines 278-296: segment badge and the Spent tile
RenderCustomerModal(rfm_segment, total_spent) ==
  /\ rfm_segment \in SegmentKeys /\ total_spent \in Spends
  /\ Render(Rendering("CustomerModal", rfm_segment, total_spent,
                      LookupOr(SEGMENTS, rfm_segment, "other"), TRUE, 0,
                      TemplateDollar(OptToFixed0(total_spent, 100))))

\* audience detail row, lines 1115-1123
RenderAudienceRow(rfm_segment, total_spent) ==
  /\ rfm_segment \in SegmentKeys /\ total_spent \in Spends
  /\ Render(Rendering("AudienceRow", rfm_segment, total_spent,
                      LookupOr(SEGMENTS, rfm_segment, "other"), TRUE, 0,
                      JsxDollar(OptToFixed0(total_spent, 100))))

\* lines 128-130: ad spend of row i and of the row before it (0 when absent)
SpendAt(hist, i) == IF i >= 1 /\ i <= Len(hist) THEN OrZero(hist[i]) ELSE 0

\* faulty variant: the delta is computed for a previous value of 0 as well
SpendDeltaShown_nonNegative(prevSpend) == prevSpend >= 0
\* line 131: spendDelta = prevSpend > 0 ? ... : null
SpendDeltaShown(prevSpend) == prevSpend > 0

\* ((curr - prev) / prev * 100).toFixed(0) in JavaScript arithmetic, where a
\* division by zero gives NaN or an infinity instead of throwing
PercentChangeText(curr, prev) ==
  IF prev = 0
  THEN IF curr = 0 THEN "NaN" ELSE IF curr > 0 THEN "Infinity" ELSE "-Infinity"
  ELSE toFixed0((curr - prev) * 100, prev)

\* lines 137 and 150: {d >= 0 ? '+' : ''}{d.toFixed(0)}% YOY
DeltaText(curr, prev) ==
  LET nonNegative == IF prev = 0 THEN curr > 0 ELSE (curr - prev) * prev >= 0
  IN (IF nonNegative THEN "+" ELSE "") \o PercentChangeText(curr, prev)
       \o "% YOY"

Histories ==
  {<<>>} \cup {<<a>> : a \in AdSpends} \cup {<<a, b>> : a, b \in AdSpends}

\* EventDetail, lines 127-139: row i of the historical comparisons
RenderHistoricalRow(hist, i) ==
  /\ hist \in Histories /\ i \in 1..Len(hist)
  /\ LET currSpend == SpendAt(hist, i)
         prevSpend == SpendAt(hist, i - 1)
     IN Render(Rendering("HistoricalRow", "", Num(prevSpend), UndefinedStyle,
                         SpendDeltaShown(prevSpend), i,
                         IF SpendDeltaShown(prevSpend)
                         THEN DeltaText(currSpend, prevSpend) ELSE ""))

\* EventDetail, lines 148-150: the current year's row
RenderCurrentRow(ad_spend, hist) ==
  /\ ad_spend \in AdSpends /\ hist \in Histories
  /\ LET ls == SpendAt(hist, Len(hist))
         shows == OrZero(ad_spend) > 0 /\ ls > 0
     IN Render(Rendering("CurrentRow", "", Num(ls), UndefinedStyle, shows, 0,
                         IF shows THEN DeltaText(OrZero(ad_spend), ls) ELSE ""))

\* EventDetail, line 91: decision badge
RenderEventDetail(decision) ==
  /\ decision \in DecisionKeys
  /\ Render(Rendering("EventDetail", decision, Absent,
                      LookupOr(DECISIONS, decision, "maintain"), TRUE, 0, ""))

\* header decision counts, line 675: cfg && n > 0 ? <div .../> : null
RenderDecisionCount(d, n) ==
  /\ d \in DecisionKeys \ {Null} /\ n \in Counts
  /\ Render(Rendering("DecisionCount", d, Num(n), Lookup(DECISIONS, d),
                      Lookup(DECISIONS, d) # UndefinedStyle /\ n > 0, 0, ""))

\* AudienceCard, lines 235-236
RenderAudienceCard(audienceKey) ==
  /\ audienceKey \in AudienceKeys
  /\ Render(Rendering("AudienceCard", audienceKey, Absent,
                      LookupOr(AUDIENCE_COLORS, audienceKey, "past_attendees"),
                      TRUE, 0, ""))

\* AudienceCard segment breakdown, line 267
RenderSegmentBreakdown(seg) ==
  /\ seg \in SegmentKeys \ {Null}
  /\ Render(Rendering("SegmentBreakdown", seg, Absent,
                      LookupOr(SEGMENTS, seg, "other"), TRUE, 0, ""))

\* timing recommendation, line 833
RenderUrgency(urgency) ==
  /\ urgency \in UrgencyKeys
  /\ Render(Rendering("TimingRecommendation", urgency, Absent,
                      LookupOr(URGENCY_COLORS, urgency, "soon"), TRUE, 0, ""))

\* audience detail header, lines 1089-1095: AUDIENCE_COLORS[selectedAudience]?.bg
RenderAudienceHeader(key) ==
  /\ key \in AudienceKeys
  /\ Render(Rendering("AudienceHeader", key, Absent,
                      Lookup(AUDIENCE_COLORS, key), TRUE, 0, ""))

\* segment cards of the browse view, line 1158
RenderSegmentCard(s) ==
  /\ s \in SegmentKeys \ {Null}
  /\ Render(Rendering("SegmentCard", s, Absent,
                      LookupOr(SEGMENTS, s, "other"), TRUE, 0, ""))

\* --------------------------------------------------- render specification
NextRender ==
  \/ \E d \in DecisionKeys, p \in Percentages : RenderEventCard(d, p)
  \/ \E p \in Percentages : RenderRevenueGap(p)
  \/ \E p \in Percentages : RenderRepeatBuyers(p)
  \/ \E s \in SegmentKeys, t \in Spends : RenderCustomerRow(s, t)
  \/ \E s \in SegmentKeys, t \in Spends : RenderCustomerModal(s, t)
  \/ \E s \in SegmentKeys, t \in Spends : RenderAudienceRow(s, t)
  \/ \E h \in Histories, i \in 1..2 : RenderHistoricalRow(h, i)
  \/ \E a \in AdSpends, h \in Histories : RenderCurrentRow(a, h)
  \/ \E d \in DecisionKeys : RenderEventDetail(d)
  \/ \E d \in DecisionKeys, n \in Counts : RenderDecisionCount(d, n)
  \/ \E k \in AudienceKeys : RenderAudienceCard(k)
  \/ \E s \in SegmentKeys : RenderSegmentBreakdown(s)
  \/ \E u \in UrgencyKeys : RenderUrgency(u)
  \/ \E k \in AudienceKeys : RenderAudienceHeader(k)
  \/ \E s \in SegmentKeys : RenderSegmentCard(s)

SpecRender == Init /\ [][NextRender]_vars

\* -------------------------------------------------- sync lifecycle properties
SyncClicks == {"clickRefresh", "clickSyncNow"}

ChainLoad(ch) == ch.syncReq + ch.pollTimers + ch.statusReqs

\* a sync the user triggered has a request or poll timer outstanding
SyncInProgress == \E c \in 1..Len(chains) : ChainLoad(chains[c]) > 0

\* C1: a sync trigger from idle sets syncing at once, and while that sync is
\* in progress syncing goes from true to false only in the handler of a
\* /api/sync-status response with done.
C1_SyncingClearedOnlyByStatusDone ==
  [][ /\ (last'.op \in SyncClicks /\ ~syncing => syncing')
      /\ (SyncInProgress /\ syncing /\ ~syncing' =>
            last'.op = "statusResponse" /\ last'.flag)
    ]_vars

\* C2: in each polling chain a status response with done = false schedules
\* exactly one poll timer, a poll timer issues exactly one status request, and
\* the chain never holds more than one of {status request, poll timer}.
C2_OnePollAtATime ==
  [][ /\ \A c \in 1..Len(chains') :
           /\ chains'[c].statusReqs <= 1
           /\ chains'[c].pollTimers <= 1
           /\ ChainLoad(chains'[c]) <= 1
      /\ (last'.op = "statusResponse" /\ ~last'.flag =>
            /\ chains'[last'.chain].pollTimers = chains[last'.chain].pollTimers + 1
            /\ chains'[last'.chain].statusReqs = chains[last'.chain].statusReqs - 1)
      /\ (last'.op = "pollTimer" =>
            /\ chains[last'.chain].statusReqs = 0
            /\ chains'[last'.chain].statusReqs = 1
            /\ chains'[last'.chain].pollTimers = 0)
    ]_vars

\* a chain whose status response said "not done" and that waits for its next poll
C2_Witness ==
  /\ last.op = "statusResponse" /\ ~last.flag
  /\ chains[last.chain].pollTimers = 1
  /\ chains[last.chain].statusReqs = 0

\* C3: a dashboard response reporting sync.running sets syncing and schedules
\* exactly one re-fetch timer, whose firing issues exactly one dashboard
\* request; a response not reporting running clears syncing and schedules none.
C3_RunningSnapshotRefetches ==
  [][ /\ (last'.op = "dashboardResponse" =>
            IF last'.flag
            THEN syncing' /\ dashboardTimers' = dashboardTimers + 1
            ELSE ~syncing' /\ dashboardTimers' = dashboardTimers)
      /\ (last'.op = "dashboardTimer" =>
            /\ dashboardTimers' = dashboardTimers - 1
            /\ DashboardInFlight' = DashboardInFlight + 1
            /\ syncing' = syncing)
    ]_vars

\* a running snapshot has arrived with no sync triggered by the user
C3_Witness ==
  /\ last.op = "dashboardResponse" /\ last.flag
  /\ chains = NoChains
  /\ syncing /\ dashboardTimers = 1 /\ DashboardInFlight = 0

CleanCompletion(l) == l.op = "statusResponse" /\ l.flag /\ l.arg = Null

\* C4 (as claimed): a recorded sync error stays until a sync completes without
\* error; starting a sync keeps it, a clean completion removes it.
C4_ErrorKeptUntilCleanCompletion ==
  [][ /\ (syncError # Null /\ ~CleanCompletion(last') => syncError' # Null)
      /\ (CleanCompletion(last') => syncError' = Null)
    ]_vars

\* C4 (amended): a recorded sync error is removed only by triggerSync, which
\* always removes it; a clean completion leaves syncError as it was.
C4_ErrorClearedOnlyByTrigger ==
  [][ /\ (syncError # Null /\ syncError' = Null => last'.op \in SyncClicks)
      /\ (last'.op \in SyncClicks /\ ~syncing => syncError' = Null)
      /\ (CleanCompletion(last') => syncError' = syncError)
    ]_vars

\* the snapshot on screen carries the error it recorded, and a click on a
\* sync button has removed the banner
C4_Witness ==
  /\ last.op \in SyncClicks
  /\ syncError = Null
  /\ dashboard.present /\ ~dashboard.running /\ dashboard.error # Null

\* C5: while syncing is true no sync button issues /api/sync or changes
\* syncing or syncError.
C5_TriggerWhileSyncingIsNoOp ==
  [][ syncing /\ last'.op \in SyncClicks =>
        UNCHANGED <<syncing, syncError, chains>> ]_vars

\* Refresh was clicked while syncing: no /api/sync request was issued
C5_Witness ==
  /\ last.op = "clickRefresh"
  /\ syncing
  /\ Len(chains) >= 1
  /\ \A c \in 1..Len(chains) : chains[c].syncReq = 0

\* C6: a status response with done clears syncing and issues exactly one
\* dashboard request, and a snapshot requested after the latest finished sync
\* stays on screen until another sync finishes.
C6_DoneRefetchesOnceSnapshotFresh ==
  [][ /\ (last'.op = "statusResponse" /\ last'.flag =>
            ~syncing' /\ DashboardInFlight' = DashboardInFlight + 1)
      /\ (/\ syncsDone >= 1 /\ syncsDone' = syncsDone
          /\ dashboard.present /\ dashboard.epoch = syncsDone
          => dashboard'.epoch = syncsDone)
    ]_vars


\* ------------------------------------------------------ targeting properties
\* every response of the endpoint has arrived, the latest one with a body
AllAnswered(f) == f.reqs = {} /\ f.latest = "ok"

\* C7: once every targeting and intelligence response has arrived, in any
\* order, the stored payloads are those of the event requested last (the
\* current target event), and targetingLoading is false only when no request
\* for the current target event is outstanding.
C7_LatestTargetingWins ==
  /\ (AllAnswered(targetingFetch) /\ targetEvent # NoEvent =>
        targeting.event = targetEvent)
  /\ (AllAnswered(intelFetch) /\ targetEvent # NoEvent =>
        intel.event = targetEvent)
  /\ (~targetingLoading =>
        \A r \in targetingFetch.reqs : r.key # targetEvent)


\* --------------------------------------------------------- browse properties
\* C8: once every /api/customers response has arrived, in any order, the
\* stored customers and customerTotal are those of the response to the
\* request built from the current search, filter, sort and page values.
C8_LatestCustomersWins ==
  AllAnswered(customersFetch) =>
    /\ customers.present
    /\ customers.params = CurrentParams
    /\ customerTotal = customers.total

FilterOps ==
  {"toggleSegment", "setCrmSearch", "setCrmCity", "setCrmType", "clearFilters"}

\* C9: every handler that changes a customer-list filter leaves crmPage = 0.
C9_FilterChangeResetsPage ==
  [][ last'.op \in FilterOps => crmPage' = 0 ]_vars

\* a filter was changed while page 2 or later was shown: the request issued
\* just before the handler's own still asks for an offset > 0
C9_Witness ==
  /\ last.op \in FilterOps
  /\ crmPage = 0
  /\ \E r \in customersFetch.reqs :
       r.id = customersFetch.issued - 1 /\ r.key.page > 0

\* C10: the sort handler on the active field flips crmOrder and keeps
\* crmSort, so that a second click restores the order; on another field it
\* sets crmSort to that field and crmOrder to DESC.
C10_SortTogglesOrResets ==
  [][ /\ crmOrder \in {"ASC", "DESC"}
      /\ (last'.op = "onSort" =>
            IF last'.arg = crmSort
            THEN /\ crmSort' = crmSort
                 /\ crmOrder' # crmOrder
                 /\ crmOrder' = (IF crmOrder = "DESC" THEN "ASC" ELSE "DESC")
                 /\ SortAfter(crmSort', crmOrder', crmSort') = <<crmSort, crmOrder>>
            ELSE /\ crmSort' = last'.arg
                 /\ crmOrder' = "DESC")
    ]_vars

\* the active sort field was clicked: ascending order is on screen
C10_Witness ==
  /\ last.op = "onSort" /\ last.arg = crmSort
  /\ crmOrder = "ASC"

\* ------------------------------------------------------- failure properties
SyncFailures == {"syncFailure", "statusFailure", "dashboardFailure"}

\* C13: after a failed /api/sync request, status poll or dashboard re-fetch,
\* syncing is false or a request or timer is still outstanding whose handler
\* will clear it (or continue the polling), so the refresh control comes back.
C13_FailureNeverLeavesStuck ==
  last.op \in SyncFailures /\ syncing =>
    SyncInProgress \/ DashboardInFlight > 0 \/ dashboardTimers > 0

\* C14: the handler of a failed dashboard, targeting, intelligence or overlap
\* request clears that request's loading flag and leaves the data variable
\* with the value it had.
C14_FailureKeepsData ==
  [][ /\ (last'.op = "dashboardFailure" => ~loading' /\ dashboard' = dashboard)
      /\ (last'.op = "targetingFailure" => ~targetingLoading' /\ targeting' = targeting)
      /\ (last'.op = "intelFailure" => ~intelLoading' /\ intel' = intel)
      /\ (last'.op = "overlapFailure" => ~overlapLoading' /\ overlap' = overlap)
    ]_vars

\* a re-fetch of the overlap report and of the targeting payload have failed
\* with earlier data on screen
C14_Witness ==
  /\ last.op = "targetingFailure"
  /\ targeting.present /\ ~targetingLoading
  /\ overlapFetch.latest = "failed" /\ ~overlapLoading

\* C15: once an overlap report is stored no /api/overlap request is issued and
\* the report stays; while a request is in flight no second one is issued;
\* entering the overlap tab after a failed request issues a new one.
C15_OverlapFetchedOnce ==
  [][ /\ (overlap.present => overlapFetch' = overlapFetch /\ overlap' = overlap)
      /\ (overlapFetch.reqs # {} => overlapFetch'.issued = overlapFetch.issued)
      /\ Cardinality(overlapFetch'.reqs) <= 1
      /\ (overlap'.present => overlapFetch'.reqs = {})
      /\ (/\ last'.op = "setTab" /\ last'.arg = "overlap" /\ tab # "overlap"
          /\ overlapFetch.latest = "failed"
          => overlapFetch'.issued = overlapFetch.issued + 1 /\ overlapLoading')
    ]_vars

\* the first request failed, the one issued on re-entering the tab was stored,
\* and the tab has been left and entered again without a third request
C15_Witness ==
  /\ last.op = "setTab" /\ last.arg = "overlap"
  /\ overlap.present
  /\ overlapFetch.issued = 2 /\ overlapFetch.reqs = {}

NavigationOps == {"setTab", "setCrmView"}

\* C16: a switch of tab or CRM sub-view keeps the filters, sort, page and
\* overlap city and view, and keeps the target event and the audience that
\* are selected (the first event being chosen when none is selected is not
\* counted as a change here).
C16_NavigationKeepsSelections ==
  [][ last'.op \in NavigationOps =>
        /\ UNCHANGED <<crmSearch, crmSegment, crmCity, crmType, crmSort,
                       crmOrder, crmPage, overlapCity, overlapView>>
        /\ (targetEvent # NoEvent => targetEvent' = targetEvent)
        /\ (selectedAudience # Null => selectedAudience' = selectedAudience)
    ]_vars

\* ------------------------------------------------------ liveness properties
PollingIdle ==
  \A c \in 1..Len(chains) : chains[c].pollTimers = 0 /\ chains[c].statusReqs = 0

\* C17: when requests succeed, the status endpoint eventually reports done
\* and the snapshot eventually stops reporting running, every triggered sync
\* is followed by a state where it is done, syncing is false and no poll
\* timer or status request is outstanding.
C17_SyncEventuallySettles ==
  \A c \in 1..MaxSyncs :
    (Len(chains) >= c) ~>
      (Len(chains) >= c /\ chains[c].done /\ ~syncing /\ PollingIdle)

\* a sync has finished after a poll that said "not done", and the snapshot
\* fetched after it is on screen with syncing false
C17_Witness ==
  /\ last.op = "dashboardResponse" /\ ~last.flag
  /\ Len(chains) >= 1 /\ chains[1].done
  /\ ~syncing /\ PollingIdle
  /\ dashboard.epoch = syncsDone

\* -------------------------------------------------------- export properties
\* The receiving server reads a query string as name=value pairs separated
\* by "&", each value percent-decoded.
SplitOn(cs, sep) ==
  LET cuts == {0, Len(cs) + 1} \cup {i \in 1..Len(cs) : cs[i] = sep}
      Cut(k) == CHOOSE c \in cuts : Cardinality({d \in cuts : d < c}) = k - 1
  IN [k \in 1..(Cardinality(cuts) - 1) |->
        SubSeq(cs, Cut(k) + 1, Cut(k + 1) - 1)]

RECURSIVE PercentDecode(_)
PercentDecode(cs) ==
  IF cs = <<>> THEN <<>>
  ELSE IF Head(cs) = "%" /\ Len(cs) >= 3
       THEN << CHOOSE c \in DOMAIN PercentCode : PercentCode[c] = SubSeq(cs, 1, 3) >>
              \o PercentDecode(SubSeq(cs, 4, Len(cs)))
       ELSE <<Head(cs)>> \o PercentDecode(Tail(cs))

\* the pairs of a query: name and raw value (all that follows the first "=")
QueryPairs(url) ==
  LET parts == SplitOn(url.query, "&")
      NameOf(part) == Head(SplitOn(part, "="))
      ValueOf(part) == SubSeq(part, Len(NameOf(part)) + 2, Len(part))
  IN [i \in 1..Len(parts) |->
        [name |-> NameOf(parts[i]), value |-> PercentDecode(ValueOf(parts[i]))]]

QueryNames(url) == [i \in 1..Len(QueryPairs(url)) |-> QueryPairs(url)[i].name]

QueryValue(url, name) ==
  LET pairs == QueryPairs(url)
  IN pairs[CHOOSE i \in 1..Len(pairs) : pairs[i].name = Chars(name)].value

HasToken(payload) == payload.token # Null /\ payload.token # ""

\* the URL opened by the step, or by the step before it
OpenedLast(urls) == urls[Len(urls)]

\* C12: with a target event selected, handleExportCSV(K) opens exactly one
\* URL, of the CSV export, whose event_id is the target event, whose audience
\* is K and whose key is the export_token of the loaded targeting payload, or
\* which has no key when the payload has no token; two exports in a row for
\* different audiences open URLs that differ in the audience value only.
C12_ExportUrlParameters ==
  [][ last'.op = "handleExportCSV" /\ targetEvent # NoEvent =>
        /\ opened' = Append(opened, OpenedLast(opened'))
        /\ LET url == OpenedLast(opened') IN
           /\ url.path = "/api/export/csv"
           /\ QueryValue(url, "event_id") = Chars(targetEvent)
           /\ QueryValue(url, "audience") = Chars(last'.arg)
           /\ IF HasToken(targeting)
              THEN /\ QueryNames(url) = <<Chars("event_id"), Chars("audience"), Chars("key")>>
                   /\ QueryValue(url, "key") = Chars(targeting.token)
              ELSE QueryNames(url) = <<Chars("event_id"), Chars("audience")>>
           /\ (last.op = "handleExportCSV" /\ last.arg # last'.arg /\ opened # <<>> =>
                 LET before == OpenedLast(opened) IN
                 /\ before # url
                 /\ before.path = url.path
                 /\ QueryNames(before) = QueryNames(url)
                 /\ \A i \in 1..Len(QueryPairs(url)) :
                      QueryPairs(url)[i].name # Chars("audience") =>
                        QueryPairs(before)[i] = QueryPairs(url)[i])
    ]_vars

\* two exports in a row, for two audiences of event B, with a token that
\* holds reserved characters
C12_Witness ==
  /\ last.op = "handleExportCSV" /\ Len(opened) = 2
  /\ targetEvent = "B" /\ targeting.token = "a&b=c"
  /\ QueryValue(opened[1], "audience") = Chars("past_attendees")
  /\ QueryValue(opened[2], "audience") = Chars("at_risk")
  /\ QueryValue(opened[1], "event_id") = Chars("B")
  /\ QueryValue(opened[2], "key") = Chars("a&b=c")

\* -------------------------------------------------------- render properties
ProgressBars == {"EventCard", "RevenueGap", "RepeatBuyers"}

\* C11: the width of every progress bar lies between 0 and 100, whatever the
\* percentage it is given: negative, above 100 or absent.
C11_WidthWithinBounds ==
  rendered.site \in ProgressBars => 0 <= rendered.width /\ rendered.width <= 100

SpendDisplays == {"CustomerTable", "CustomerModal", "AudienceRow"}

\* C18: a spend display of a record without total_spent shows a placeholder,
\* never the text "$undefined" or "$NaN".
C18_AbsentSpendShowsPlaceholder ==
  rendered.site \in SpendDisplays /\ ~rendered.input.has =>
    rendered.text \notin {"$undefined", "$NaN"}

DeltaRows == {"HistoricalRow", "CurrentRow"}
DivisionByZeroTexts == {"NaN% YOY", "+Infinity% YOY", "-Infinity% YOY"}

\* C19: a year-over-year delta is rendered exactly when the previous spend is
\* greater than 0 (with a current spend, in the current row), never for the
\* first row, and its text never comes from a division by zero.
C19_DeltaOnlyForPositivePrevious ==
  rendered.site \in DeltaRows =>
    /\ (rendered.shown => rendered.input.val > 0)
    /\ (rendered.site = "HistoricalRow" =>
          (rendered.shown <=> rendered.input.val > 0))
    /\ (rendered.site = "HistoricalRow" /\ rendered.width = 1 => ~rendered.shown)
    /\ (rendered.shown <=> rendered.text # "")
    /\ rendered.text \notin DivisionByZeroTexts

\* the second historical row follows a year with spend: "+50% YOY" style text
C19_Witness ==
  /\ rendered.site = "HistoricalRow" /\ rendered.width = 2
  /\ rendered.shown /\ rendered.input.val = 100
  /\ rendered.text = "+50% YOY"

StyleLookups ==
  {"EventCard", "EventDetail", "CustomerTable", "CustomerModal", "AudienceRow",
   "DecisionCount", "AudienceCard", "SegmentBreakdown", "TimingRecommendation",
   "AudienceHeader", "SegmentCard"}

\* C20: every style lookup yields a defined style record, the table's default
\* entry for an unknown or absent key, and no item with a positive count is
\* hidden because its key is unknown.
C20_LookupFallsBack ==
  rendered.site \in StyleLookups =>
    /\ rendered.style # UndefinedStyle
    /\ (rendered.site = "DecisionCount" /\ rendered.input.val > 0 => rendered.shown)

\* ---------------------------------------------------- request properties
\* the values a query has under a name
ValuesOf(query, name) == {query[i][2] : i \in {j \in 1..Len(query) : query[j][1] = name}}

QueryKeys(query) == {query[i][1] : i \in 1..Len(query)}

\* the value set of an optional parameter: none when the filter is empty
Optional(value) == IF value = "" THEN {} ELSE {value}

\* C21: every /api/customers request carries limit = 50, offset = crmPage * 50,
\* sort = crmSort and order = crmOrder, and carries each of search, segment,
\* city and event_type exactly when that filter is non-empty, with its value
\* (the values being those of the render whose effect issues the request).
C21_CustomersRequestParameters ==
  [][ \A r \in customersFetch'.reqs \ customersFetch.reqs :
        /\ ValuesOf(r.query, "limit") = {"50"}
        /\ ValuesOf(r.query, "offset") = {ToString(crmPage' * 50)}
        /\ ValuesOf(r.query, "sort") = {crmSort'}
        /\ ValuesOf(r.query, "order") = {crmOrder'}
        /\ ValuesOf(r.query, "search") = Optional(crmSearch')
        /\ ValuesOf(r.query, "segment") = Optional(crmSegment')
        /\ ValuesOf(r.query, "city") = Optional(crmCity')
        /\ ValuesOf(r.query, "event_type") = Optional(crmType')
        /\ Cardinality(QueryKeys(r.query)) = Len(r.query)
        /\ QueryKeys(r.query) \subseteq
             {"limit", "offset", "sort", "order", "search", "segment", "city",
              "event_type"}
    ]_vars

\* the request for page 2 is in flight, and the one issued by typing a search
\* text carries the text and offset 0
C21_Witness ==
  /\ last.op = "setCrmSearch"
  /\ \E r \in customersFetch.reqs :
       /\ r.id = customersFetch.issued
       /\ ValuesOf(r.query, "search") = {"ann"}
       /\ ValuesOf(r.query, "offset") = {"0"}
  /\ \E r \in customersFetch.reqs : ValuesOf(r.query, "offset") = {"50"}

\* C22: a /api/customers list request is issued only into a state with
\* tab = crm and crmView = browse; a /api/targeting or /api/intelligence
\* request only into a state with tab = crm, crmView = targeting and a
\* non-empty targetEvent, and for that event; a /api/overlap request only into
\* a state with tab = overlap.
C22_FetchesScopedToView ==
  [][ /\ (customersFetch'.issued # customersFetch.issued =>
            tab' = "crm" /\ crmView' = "browse")
      /\ \A r \in (targetingFetch'.reqs \ targetingFetch.reqs)
                    \cup (intelFetch'.reqs \ intelFetch.reqs) :
           /\ tab' = "crm" /\ crmView' = "targeting"
           /\ targetEvent' # NoEvent /\ r.key = targetEvent'
      /\ (targetingFetch'.issued # targetingFetch.issued =>
            targetingFetch'.reqs \ targetingFetch.reqs # {})
      /\ (intelFetch'.issued # intelFetch.issued =>
            intelFetch'.reqs \ intelFetch.reqs # {})
      /\ (overlapFetch'.issued # overlapFetch.issued => tab' = "overlap")
    ]_vars

\* each of the three views has issued its requests, the targeting view twice,
\* and the overlap tab has just been entered
C22_Witness ==
  /\ last.op = "setTab" /\ last.arg = "overlap" /\ tab = "overlap"
  /\ overlapFetch.issued = 1 /\ overlapFetch.reqs # {}
  /\ customersFetch.issued >= 1
  /\ targetingFetch.issued = 2 /\ intelFetch.issued = 2
  /\ targetEvent = "B"

\* ---------------------------------------------------- session invariants
\* the chains that have a poll timer pending or a status request in flight
PollingChains ==
  {c \in 1..Len(chains) : chains[c].pollTimers + chains[c].statusReqs > 0}

TotalOf(field) ==
  LET Sum[c \in 0..Len(chains)] ==
        IF c = 0 THEN 0 ELSE Sum[c - 1] + chains[c][field]
  IN Sum[Len(chains)]

\* C23: at any time at most one polling chain is active: there are never two
\* status requests in flight nor two poll timers pending, and syncing is true
\* whenever a chain is polling.
C23_OnePollingChain ==
  /\ Cardinality(PollingChains) <= 1
  /\ TotalOf("statusReqs") <= 1
  /\ TotalOf("pollTimers") <= 1
  /\ (PollingChains # {} => syncing)

\* C24: the event shown in the detail pane is none or an event of the event
\* list of the snapshot on screen, also after a re-fetch that has no events.
C24_SelectedEventInSnapshot ==
  selectedEvent = Null \/ selectedEvent \in Elems(dashboard.events)

\* ------------------------------------------------------ download properties
\* C25: no export URL is opened with an empty event_id: every URL given to
\* window.open names a non-empty event.
C25_ExportsNameAnEvent ==
  \A i \in 1..Len(opened) : QueryValue(opened[i], "event_id") # <<>>

\* the stored payload whose export_token the handler of an export reads
TokenSource(op) == IF op = "handleIntelExport" THEN intel ELSE targeting

\* C26: an export URL that names an event and carries a key is opened for the
\* event whose targeting (or intelligence) response supplied the token, also
\* while a newer request is loading and after responses arrived out of order.
C26_KeyBelongsToEvent ==
  [][ opened' # opened =>
        LET url == OpenedLast(opened') IN
        Chars("key") \in Elems(QueryNames(url))
          /\ QueryValue(url, "event_id") # <<>> =>
            QueryValue(url, "event_id") = Chars(TokenSource(last'.op).event)
    ]_vars

\* ------------------------------------------------------- overlap properties
\* C27: the overlap sub-view selector always holds a view the tab can render
\* and highlight, from the initial state on.
C27_OverlapViewIsRenderable == overlapView \in OverlapViews

C29_PageWithinTotal ==
  /\ crmPage >= 0
  /\ (crmPage > 0 => crmPage * CRM_LIMIT < customerTotal)

\* ------------------------------------------------------- loading properties
DashboardOutcomes == {"dashboardResponse", "dashboardFailure"}

\* C30: the loading screen is shown from the start, is dismissed by the
\* handler of the first dashboard request, fulfilled or rejected, and by
\* nothing else, is never shown again, and is dismissed in the end.
C30_LoadingDismissedForGood ==
  /\ [][ /\ (loading /\ last'.op \in DashboardOutcomes => ~loading')
         /\ (loading /\ last'.op \notin DashboardOutcomes => loading')
         /\ (~loading => ~loading')
       ]_vars
  /\ (loading ~> ~loading)
  /\ <>[](~loading)

\* the first request is settled, a sync has finished, and the snapshot
\* fetched after it is on screen with the loading screen still dismissed
C30_Witness ==
  /\ ~loading
  /\ last.op = "dashboardResponse"
  /\ dashboard.epoch >= 1
  /\ dashboardReqs[0] = 0

====
